---- MODULE Spec2Model ----
(***************************************************************************)
(* Demand paging and FIFO swapping for xv6 (kernel/demand_paging.c,        *)
(* kernel/lazy.c, kernel/exec.c, kernel/sysproc.c).                        *)
(*                                                                         *)
(* The repository holds two implementations of the paging core that define *)
(* the same symbols (get_page_info, alloc_swap_slot, ...): demand_paging.c *)
(* (explicit dirty tracking, descriptors found by linear search) and       *)
(* lazy.c (eager writability, descriptors indexed by a hash of the page    *)
(* number).  The variable build says which of the two is linked into the   *)
(* kernel; exec.c and sysproc.c are shared by both.                        *)
(*                                                                         *)
(* One process is modelled.  A C function is an operator that takes the    *)
(* process state as a record s and returns the record after the call, its  *)
(* return value in s.ret.  The contents of a page are abstracted to its    *)
(* two halves <<lo, hi>>, each a token: 0 for zero bytes, -1 for junk      *)
(* (kalloc, kfree), 100+k for the k-th half page of the executable file,   *)
(* 50 for the argument strings, 1..MaxVal for values stored by the user.   *)
(***************************************************************************)
EXTENDS Integers, Sequences, FiniteSets, TLC

\* ---------------------------------------------------------------- constants

PGSIZE == 4096
MAX_SWAP_SLOTS == 1024
USERSTACK == 1
UNMAPPED == 0
RESIDENT == 1
SWAPPED == 2
MAX_PAGES_INFO == 128

\* ------------------------------------------------------------------- bounds

\* The capacity of p->pages (the spec: "at most MAX_PROC_PAGES, e.g. 128"),
\* scaled down so that an image can have more pages than descriptors.
MAX_PROC_PAGES == 8
\* physical frames the allocator can hand to this process
NFRAMES == 2
\* calls of kexec, failed ones included
MaxExec == 1
\* lazy sbrk calls
MaxSbrk == 1
\* the FIFO counter is capped: no fault is taken once it reaches MaxSeq
MaxSeq == 4
\* values a user store writes are 1..MaxVal
MaxVal == 1
\* calls of a fault handler that fail (return -1)
MaxFail == 1
\* calls of kexec by one process in SpecLife
MaxReexec == 2
\* calls of the cleanup functions while the process exits
MaxClean == 2

\* ------------------------------------------------------------------ helpers

PGROUNDDOWN(a) == (a \div PGSIZE) * PGSIZE
PGROUNDUP(a) == ((a + PGSIZE - 1) \div PGSIZE) * PGSIZE

HALF == PGSIZE \div 2
ZeroPage == <<0, 0>>
JunkPage == <<-1, -1>>

MinOf(S) == CHOOSE x \in S : \A y \in S : x <= y
MaxOf(S) == CHOOSE x \in S : \A y \in S : x >= y

PageIdx == 0 .. (MAX_PROC_PAGES - 1)

\* ------------------------------------------------------- executable images

\* An ELF program header as kexec reads it: flags bit 0x1 is the execute flag.
Ph(vaddr, memsz, filesz, off, isx) ==
  [vaddr |-> vaddr, memsz |-> memsz, filesz |-> filesz, off |-> off, is_exec |-> isx]

\* Image 1: the usual xv6 layout, text at 0, then data whose first half page
\* is initialised and whose remainder is BSS.  The file goes on after the
\* initialised data (section headers, symbol table).
\* Image 3 (any other i): text at 0 and a data segment with a large BSS: the
\* segments fill MAX_PROC_PAGES pages, the stack page is one more.
Image(i) ==
  CASE i = 1 -> [phs |-> << Ph(0, PGSIZE, PGSIZE, PGSIZE, TRUE),
                            Ph(PGSIZE, 2 * PGSIZE, HALF, 2 * PGSIZE, FALSE) >>,
                 fsize |-> 3 * PGSIZE]
    [] OTHER -> [phs |-> << Ph(0, PGSIZE, PGSIZE, PGSIZE, TRUE),
                            Ph(PGSIZE, (MAX_PROC_PAGES - 1) * PGSIZE, PGSIZE, 2 * PGSIZE, FALSE) >>,
                 fsize |-> 3 * PGSIZE]

Images == {1, 3}

\* The token of the half page of the executable file at byte offset off.
ExecHalf(off) == 100 + (off \div HALF)

\* readi(exec_inode, dst, off, n) into a zeroed frame: the bytes [off, off+n)
\* that lie inside the file; the halves it does not reach stay zero.
ReadExec(img, off, n) ==
  LET fsize == Image(img).fsize
      lo == IF n > 0 /\ off < fsize THEN ExecHalf(off) ELSE 0
      hi == IF n > HALF /\ off + HALF < fsize THEN ExecHalf(off + HALF) ELSE 0
  IN << lo, hi >>

\* -------------------------------------------------------------------- state

VARIABLES
  build,              \* "dp": demand_paging.c is linked, "lazy": lazy.c
  text_start, text_end, data_start, data_end, heap_start, stack_top, sz,
  pages,              \* p->pages[MAX_PROC_PAGES]
  exec_off, exec_len, \* p->exec_off[], p->exec_len[]
  num_pages,          \* p->num_pages
  next_fifo_seq,      \* p->next_fifo_seq
  swapfile,           \* p->swapfile / p->swapfile_inode: 0 or 1 (open)
  swap_slot_bitmap,   \* the set of slots whose bit is set
  num_swapped_pages,  \* p->num_swapped_pages
  exec_inode,         \* p->exec_inode: 0, or the image it refers to
  pagetable,          \* p->pagetable: mapped va -> [pa, perm]
  freelist,           \* the frame allocator's free list, head first
  physmem,            \* frame -> page contents
  swapdata,           \* the swap file: slot -> page contents
  killed,             \* setkilled(p) was called
  panicked,           \* the kernel called panic()
  log,                \* events of the last call, in order
  ret,                \* return value of the last call
  lastop,             \* the last call: [op, va, w, a], a the address given
  shadow,             \* va -> contents the user program last wrote there
  nexec, nsbrk, nfail,\* calls counted against MaxExec, MaxSbrk, MaxFail
  nlink,              \* link count of the swap file's inode on disk
  info,               \* the struct proc_mem_stat the last call copied out
  nclean              \* cleanup calls made since the process began to exit

\* no struct was copied out
NoInfo ==
  [valid |-> FALSE, num_pages_total |-> 0, num_resident_pages |-> 0,
   num_swapped_pages |-> 0, next_fifo_seq |-> 0, pages |-> << >>]

vars == << build, text_start, text_end, data_start, data_end, heap_start,
           stack_top, sz, pages, exec_off, exec_len, num_pages, next_fifo_seq,
           swapfile, swap_slot_bitmap, num_swapped_pages, exec_inode,
           pagetable, freelist, physmem, swapdata, killed, panicked, log, ret,
           lastop, shadow, nexec, nsbrk, nfail, nlink, info, nclean >>

\* The process state as one record, for the operators that model C functions.
ProcState ==
  [build |-> build, text_start |-> text_start, text_end |-> text_end,
   data_start |-> data_start, data_end |-> data_end,
   heap_start |-> heap_start, stack_top |-> stack_top, sz |-> sz,
   pages |-> pages, exec_off |-> exec_off, exec_len |-> exec_len,
   num_pages |-> num_pages, next_fifo_seq |-> next_fifo_seq,
   swapfile |-> swapfile, swap_slot_bitmap |-> swap_slot_bitmap,
   num_swapped_pages |-> num_swapped_pages, exec_inode |-> exec_inode,
   pagetable |-> pagetable, freelist |-> freelist, physmem |-> physmem,
   swapdata |-> swapdata, killed |-> killed, panicked |-> panicked,
   nlink |-> nlink, info |-> NoInfo,
   log |-> << >>, ret |-> 0]

\* The primed variables from the record a call returns.
Commit(s) ==
  /\ build' = s.build
  /\ text_start' = s.text_start /\ text_end' = s.text_end
  /\ data_start' = s.data_start /\ data_end' = s.data_end
  /\ heap_start' = s.heap_start /\ stack_top' = s.stack_top /\ sz' = s.sz
  /\ pages' = s.pages /\ exec_off' = s.exec_off /\ exec_len' = s.exec_len
  /\ num_pages' = s.num_pages /\ next_fifo_seq' = s.next_fifo_seq
  /\ swapfile' = s.swapfile /\ swap_slot_bitmap' = s.swap_slot_bitmap
  /\ num_swapped_pages' = s.num_swapped_pages /\ exec_inode' = s.exec_inode
  /\ pagetable' = s.pagetable /\ freelist' = s.freelist
  /\ physmem' = s.physmem /\ swapdata' = s.swapdata
  /\ killed' = s.killed /\ panicked' = s.panicked
  /\ nlink' = s.nlink /\ info' = s.info
  /\ log' = s.log /\ ret' = s.ret

Desc(va, state, dirty, seq, slot) ==
  [va |-> va, state |-> state, is_dirty |-> dirty, seq |-> seq, swap_slot |-> slot]

\* demand_paging_init / lazy_init: the state allocproc leaves.  The two differ
\* in the seq a never-resident descriptor carries (-1 and 0).
demand_paging_init(b) ==
  /\ build = b
  /\ text_start = 0 /\ text_end = 0 /\ data_start = 0 /\ data_end = 0
  /\ heap_start = 0 /\ stack_top = 0
  /\ next_fifo_seq = 0
  /\ swapfile = 0
  /\ num_swapped_pages = 0
  /\ num_pages = 0
  /\ exec_inode = 0
  /\ swap_slot_bitmap = {}
  /\ pages = [i \in PageIdx |-> Desc(0, UNMAPPED, FALSE, IF b = "dp" THEN -1 ELSE 0, -1)]
  /\ exec_off = [i \in PageIdx |-> 0]
  /\ exec_len = [i \in PageIdx |-> 0]

Init ==
  /\ \E b \in {"dp", "lazy"} : demand_paging_init(b)
  /\ sz = 0
  /\ pagetable = << >>
  /\ freelist = [i \in 1 .. NFRAMES |-> i]
  /\ physmem = [f \in 1 .. NFRAMES |-> JunkPage]
  /\ swapdata = << >>
  /\ killed = FALSE /\ panicked = FALSE
  /\ log = << >> /\ ret = 0
  /\ lastop = [op |-> "init", va |-> 0, w |-> FALSE, a |-> 0]
  /\ shadow = << >>
  /\ nexec = 0 /\ nsbrk = 0 /\ nfail = 0
  /\ nlink = 0 /\ info = NoInfo /\ nclean = 0

\* ------------------------------------------------- collaborators (not in src)

Emit(s, e) == [s EXCEPT !.log = Append(@, e)]
Return(s, v) == [s EXCEPT !.ret = v]
Emits(s, es) == [s EXCEPT !.log = @ \o es]

Unmapped(pt, va) == [v \in (DOMAIN pt) \ {va} |-> pt[v]]

\* kalloc(): the head of the free list, 0 when the list is empty.
kalloc(s) ==
  IF s.freelist = << >> THEN Return(s, 0)
  ELSE LET f == Head(s.freelist)
       IN [s EXCEPT !.ret = f, !.freelist = Tail(@), !.physmem[f] = JunkPage]

\* kfree(pa): fills the frame with junk and pushes it on the free list.
kfree(s, pa) ==
  Emit([s EXCEPT !.freelist = << pa >> \o @, !.physmem[pa] = JunkPage],
       << "kfree", pa >>)

\* mappages(pagetable, va, PGSIZE, pa, perm): -1 when a page-table page
\* cannot be allocated (ok = FALSE), panic("mappages: remap") when va is
\* mapped already.
mappages(s, va, pa, perm, ok) ==
  IF ~ok THEN Return(s, -1)
  ELSE IF va \in DOMAIN s.pagetable THEN [s EXCEPT !.panicked = TRUE, !.ret = -1]
  ELSE Emit([s EXCEPT !.pagetable = (va :> [pa |-> pa, perm |-> perm]) @@ @,
                      !.ret = 0],
            << "map", va >>)

\* uvmunmap(pagetable, va, npages, 1) for the mapped pages vas of its range,
\* in address order: the frame is freed and the PTE cleared.
RECURSIVE uvmunmap_pages(_, _)
uvmunmap_pages(s, vas) ==
  IF vas = {} THEN s
  ELSE uvmunmap_pages(
         Emit([kfree(s, s.pagetable[MinOf(vas)].pa)
                 EXCEPT !.pagetable = Unmapped(@, MinOf(vas))],
              << "unmap", MinOf(vas) >>),
         vas \ {MinOf(vas)})

\* uvmunmap(pagetable, va, npages, 1): the pages of [va, va + npages*PGSIZE)
\* that are not mapped are skipped.
uvmunmap(s, va, npages) ==
  uvmunmap_pages(s, {v \in DOMAIN s.pagetable : v >= va /\ v < va + npages * PGSIZE})

\* walkaddr(pagetable, va): 0 unless va is mapped with PTE_U.
walkaddr(s, va) ==
  IF va \in DOMAIN s.pagetable /\ "U" \in s.pagetable[va].perm
  THEN s.pagetable[va].pa ELSE 0

ismapped(s, va) == va \in DOMAIN s.pagetable

\* iput(ip) on the swap file's inode, the last reference to it: the inode and
\* its blocks are freed when no link is left, the file stays when one is.
iput(s) ==
  Emit([s EXCEPT !.swapdata = IF s.nlink = 0 THEN << >> ELSE @], << "iput", "swap" >>)

\* fileclose(f) on the swap file: the reference is dropped, as by iput.
fileclose(s) == iput(Emit(s, << "fileclose" >>))

\* What the disk and the page-table allocator do during one call: mappages
\* finds memory for a page-table page (map_ok), the swap write and the read
\* transfer PGSIZE bytes (wr_ok, rd_ok), create() of the swap file succeeds
\* (create_ok).  At most one of them fails during one call.
Env(m, w, r, c) == [map_ok |-> m, wr_ok |-> w, rd_ok |-> r, create_ok |-> c]
Envs == {Env(TRUE, TRUE, TRUE, TRUE), Env(FALSE, TRUE, TRUE, TRUE),
         Env(TRUE, FALSE, TRUE, TRUE), Env(TRUE, TRUE, FALSE, TRUE),
         Env(TRUE, TRUE, TRUE, FALSE)}

\* ------------------------------------------------------- demand_paging.c
\* A value that a call returns is handed on as the parameter of the operator
\* that models the code after the call.

\* The result of get_page_info: the state after the call (an entry may have
\* been created) and the index of the entry, -1 for a null pointer.
get_page_info_dp(s, va0) ==
  LET va == PGROUNDDOWN(va0)
      hits == {i \in 0 .. (s.num_pages - 1) : s.pages[i].va = va}
  IN IF hits # {} THEN [s |-> s, idx |-> MinOf(hits)]
     ELSE IF s.num_pages < MAX_PROC_PAGES
     THEN [s |-> [s EXCEPT !.num_pages = @ + 1,
                           !.pages[s.num_pages] = Desc(va, UNMAPPED, FALSE, -1, -1)],
           idx |-> s.num_pages]
     ELSE [s |-> s, idx |-> -1]

get_page_info_lazy(s, va) ==
  [s |-> s, idx |-> (va \div PGSIZE) % MAX_PROC_PAGES]

get_page_info(s, va) ==
  IF s.build = "dp" THEN get_page_info_dp(s, va) ELSE get_page_info_lazy(s, va)

\* The lowest slot whose bit is clear, -1 when all MAX_SWAP_SLOTS are set.
\* (The lowest clear bit is never above the number of set bits.)
LowestFreeSlot(bm) ==
  LET cand == {i \in 0 .. Cardinality(bm) : i \notin bm /\ i < MAX_SWAP_SLOTS}
  IN IF cand = {} THEN -1 ELSE MinOf(cand)

alloc_swap_slot_dp(s) ==
  LET slot == LowestFreeSlot(s.swap_slot_bitmap)
  IN IF slot < 0 THEN Return(s, -1)
     ELSE [s EXCEPT !.swap_slot_bitmap = @ \cup {slot}, !.ret = slot]

alloc_swap_slot_lazy(s) ==
  IF s.num_swapped_pages >= MAX_SWAP_SLOTS THEN Return(s, -1)
  ELSE alloc_swap_slot_dp(s)

free_swap_slot(s, slot) ==
  IF slot < 0 \/ slot >= MAX_SWAP_SLOTS THEN s
  ELSE [s EXCEPT !.swap_slot_bitmap = @ \ {slot}]

\* swap_out_page lines 207-219, swap_in_page lines 246-258: the transfer op
\* of one page to or from slot, inside begin_op/end_op and with the swap
\* inode locked; ok tells whether PGSIZE bytes were transferred.
SwapIo(s, op, slot, ok) ==
  Emits(s, << << "begin_op" >>, << "ilock", "swap" >>, << op, slot, ok >>,
              << "iunlock", "swap" >>, << "end_op" >> >>)

\* swap_out_page, lines 200-227: a is the state after alloc_swap_slot, the
\* slot in a.ret.  A short write leaves a torn page in the slot.
swap_out_page_write(a, pi, va, pa, env) ==
  IF a.ret < 0
  THEN Return(Emit(Emit(a, << "SWAPFULL" >>), << "KILL", "swap-exhausted" >>), -1)
  ELSE IF ~env.wr_ok
  THEN Return(free_swap_slot(
                SwapIo([a EXCEPT !.swapdata = (a.ret :> JunkPage) @@ @],
                       "writei", a.ret, FALSE), a.ret), -1)
  ELSE Emit(SwapIo([a EXCEPT !.swapdata = (a.ret :> a.physmem[pa]) @@ @,
                             !.pages[pi].swap_slot = a.ret,
                             !.pages[pi].state = SWAPPED,
                             !.num_swapped_pages = @ + 1],
                   "writei", a.ret, TRUE),
            << "SWAPOUT", PGROUNDDOWN(va), a.ret >>)

\* swap_out_page, lines 194-199: g is what get_page_info returned.
swap_out_page_slot(g, va, pa, env) ==
  IF g.idx = -1 THEN Return(g.s, -1)
  ELSE swap_out_page_write(alloc_swap_slot_dp(g.s), g.idx, va, pa, env)

swap_out_page(s, va, pa, env) ==
  IF s.swapfile = 0 THEN Return(s, -1)
  ELSE swap_out_page_slot(get_page_info_dp(s, va), va, pa, env)

\* swap_in_page, lines 238-274: s is the state after get_page_info, pi the
\* descriptor.
swap_in_page_read(s, pi, va, pa, env) ==
  LET slot == IF pi = -1 THEN -1 ELSE s.pages[pi].swap_slot
  IN IF pi = -1 \/ s.pages[pi].state # SWAPPED THEN Return(s, -1)
     ELSE IF slot < 0 THEN Return(s, -1)
     ELSE IF ~env.rd_ok THEN Return(SwapIo(s, "readi", slot, FALSE), -1)
     ELSE Return(
       Emit([free_swap_slot(
               Emit(SwapIo([s EXCEPT !.physmem[pa] =
                              IF slot \in DOMAIN s.swapdata THEN s.swapdata[slot]
                              ELSE ZeroPage],
                           "readi", slot, TRUE),
                    << "SWAPIN", PGROUNDDOWN(va), slot >>),
               slot)
             EXCEPT !.pages[pi].swap_slot = -1,
                    !.pages[pi].state = RESIDENT,
                    !.num_swapped_pages = IF @ > 0 THEN @ - 1 ELSE @,
                    !.pages[pi].seq = s.next_fifo_seq,
                    !.next_fifo_seq = @ + 1,
                    !.pages[pi].is_dirty = FALSE],
            << "RESIDENT", PGROUNDDOWN(va), s.next_fifo_seq >>), 0)

swap_in_page_at(g, va, pa, env) == swap_in_page_read(g.s, g.idx, va, pa, env)

swap_in_page(s, va, pa, env) ==
  IF s.swapfile = 0 THEN Return(s, -1)
  ELSE swap_in_page_at(get_page_info_dp(s, va), va, pa, env)

\* delete_swap_file of demand_paging.c, lines 162-185: the set bits are
\* counted and logged, the file is closed.
delete_swap_file_dp(s) ==
  IF s.swapfile = 0 THEN s
  ELSE [fileclose(Emit(s, << "SWAPCLEANUP", Cardinality(s.swap_slot_bitmap) >>))
          EXCEPT !.swapfile = 0]

\* The loop of find_fifo_victim from entry i on: << min_seq, victim_va >>.
RECURSIVE fifo_scan(_, _, _, _)
fifo_scan(s, i, min_seq, victim_va) ==
  IF i >= s.num_pages THEN << min_seq, victim_va >>
  ELSE IF s.pages[i].state = RESIDENT /\ (min_seq = -1 \/ s.pages[i].seq < min_seq)
  THEN fifo_scan(s, i + 1, s.pages[i].seq, s.pages[i].va)
  ELSE fifo_scan(s, i + 1, min_seq, victim_va)

find_fifo_victim(s) == fifo_scan(s, 0, -1, 0)[2]

\* A faulty variant of evict_page_unmap: the frame is freed, the PTE stays.
evict_page_unmap_keep(s3, victim_va, pa) ==
  IF s3.ret < 0 THEN Return(s3, -1)
  ELSE Return(kfree(s3, pa), 0)

\* evict_page, lines 319-331: s3 is the state after the branch taken.
evict_page_unmap(s3, victim_va, pa) ==
  IF s3.ret < 0 THEN Return(s3, -1)
  ELSE Return(kfree(Emit([s3 EXCEPT !.pagetable = Unmapped(@, victim_va)],
                         << "unmap", victim_va >>), pa), 0)

\* evict_page, lines 311-325: the victim's descriptor is pi, its frame pa.
evict_page_branch(s, pi, victim_va, pa, env) ==
  IF s.pages[pi].is_dirty
  THEN swap_out_page(Emit(Emit(s, << "VICTIM", victim_va, s.pages[pi].seq >>),
                          << "EVICT", victim_va, "dirty" >>),
                     victim_va, pa, env)
  ELSE Return([Emit(Emit(Emit(s, << "VICTIM", victim_va, s.pages[pi].seq >>),
                              << "EVICT", victim_va, "clean" >>),
                    << "DISCARD", victim_va >>)
                 EXCEPT !.pages[pi].state = UNMAPPED], 0)

\* evict_page, lines 300-309: g is what get_page_info returned.
evict_page_at(g, victim_va, env) ==
  IF g.idx = -1 THEN Return(g.s, -1)
  ELSE IF g.s.pages[g.idx].state # RESIDENT THEN Return(g.s, -1)
  ELSE IF victim_va \notin DOMAIN g.s.pagetable THEN Return(g.s, -1)
  ELSE evict_page_unmap(
         evict_page_branch(g.s, g.idx, victim_va, g.s.pagetable[victim_va].pa, env),
         victim_va, g.s.pagetable[victim_va].pa)

evict_page(s, victim_va, env) ==
  evict_page_at(get_page_info_dp(s, victim_va), victim_va, env)

InText(s, va) == va >= s.text_start /\ va < s.text_end

\* handle_page_fault, lines 353-378: the cause of a fault at page va whose
\* descriptor is pi.  stack_top - 2*PGSIZE is an unsigned subtraction.
hpf_cause(s, va, pi) ==
  IF pi # -1 /\ s.pages[pi].state = SWAPPED THEN "swap"
  ELSE IF va >= s.text_start /\ va < s.data_end THEN "exec"
  ELSE IF va >= s.heap_start /\ va < s.sz THEN "heap"
  ELSE IF s.stack_top >= 2 * PGSIZE /\ va < s.stack_top
          /\ va >= s.stack_top - 2 * PGSIZE THEN "stack"
  ELSE "unknown"

\* memset(mem, 0, PGSIZE) of the frame in k.ret, if there is one.
ZeroFrame(k) ==
  IF k.ret = 0 THEN k ELSE [k EXCEPT !.physmem[k.ret] = ZeroPage]

\* handle_page_fault, lines 405-419: e is the state after evict_page.
hpf_alloc_retry(e) ==
  IF e.ret < 0 THEN Return(e, 0) ELSE ZeroFrame(kalloc(e))

\* handle_page_fault, lines 395-404: kalloc failed, m is the state after
\* MEMFULL was logged.
hpf_alloc_evict(m, victim_va, env) ==
  IF victim_va = 0 THEN Return(m, 0)
  ELSE hpf_alloc_retry(evict_page(m, victim_va, env))

\* handle_page_fault, lines 391-419: k is the state after the first kalloc.
\* A zeroed frame in ret; ret = 0 when no frame could be had.
hpf_alloc(k, env) ==
  IF k.ret # 0 THEN ZeroFrame(k)
  ELSE hpf_alloc_evict(Emit(k, << "MEMFULL" >>), find_fifo_victim(k), env)

\* A faulty variant of hpf_resident: the counter is not incremented.
hpf_resident_same(g, va) ==
  IF g.idx = -1 THEN Emit(g.s, << "RESIDENT", va, -1 >>)
  ELSE Emit([g.s EXCEPT !.pages[g.idx].state = RESIDENT,
                        !.pages[g.idx].seq = g.s.next_fifo_seq,
                        !.pages[g.idx].is_dirty = FALSE],
            << "RESIDENT", va, g.s.next_fifo_seq >>)

\* handle_page_fault, lines 467-476 and 482-491: the descriptor g.idx, if
\* there is one, becomes RESIDENT with a fresh seq.
hpf_resident(g, va) ==
  IF g.idx = -1 THEN Emit(g.s, << "RESIDENT", va, -1 >>)
  ELSE Emit([g.s EXCEPT !.pages[g.idx].state = RESIDENT,
                        !.pages[g.idx].seq = g.s.next_fifo_seq,
                        !.next_fifo_seq = @ + 1,
                        !.pages[g.idx].is_dirty = FALSE],
            << "RESIDENT", va, g.s.next_fifo_seq >>)

\* if(!pi) pi = get_page_info(p, va);
hpf_pi(s, va, pi) ==
  IF pi = -1 THEN get_page_info_dp(s, va) ELSE [s |-> s, idx |-> pi]

\* handle_page_fault, lines 424-427: r is the state after swap_in_page.
hpf_fill_swapped(r, pa) ==
  IF r.ret < 0 THEN Return(kfree(r, pa), -1) ELSE Return(r, 0)

\* handle_page_fault, lines 429-477: the page is loaded from the executable.
hpf_fill_exec(s, va, pi, pa, env) ==
  LET hits == {i \in 0 .. (s.num_pages - 1) : s.pages[i].va = va}
      found == hits # {}
      offset == IF found THEN s.exec_off[MinOf(hits)] ELSE 0
  IN IF s.exec_inode = 0 THEN Return(kfree(s, pa), -1)
     ELSE IF found /\ offset > 0 /\ ~env.rd_ok
     THEN Return(kfree(Emit(s, << "readi", "exec", FALSE >>), pa), -1)
     ELSE IF found /\ offset > 0
     THEN Return(hpf_resident(
                   hpf_pi(Emit(Emit([s EXCEPT !.physmem[pa] =
                                       ReadExec(s.exec_inode, offset, PGSIZE)],
                                    << "readi", "exec", TRUE >>),
                               << "LOADEXEC", va >>), va, pi), va), 0)
     ELSE Return(hpf_resident(hpf_pi(Emit(s, << "LOADEXEC", va >>), va, pi), va), 0)

\* handle_page_fault, lines 421-492: fill the frame pa; ret < 0 on failure
\* (the frame is freed then).
hpf_fill(s, va, pi, pa, env) ==
  IF pi # -1 /\ s.pages[pi].state = SWAPPED
  THEN hpf_fill_swapped(swap_in_page(s, va, pa, env), pa)
  ELSE IF va >= s.text_start /\ va < s.data_end
  THEN hpf_fill_exec(s, va, pi, pa, env)
  ELSE Return(hpf_resident(hpf_pi(Emit(s, << "ALLOC", va >>), va, pi), va), 0)

\* handle_page_fault with the failure branch of line 503 leaving out kfree(pa).
hpf_mapped_leak(mp, pa) ==
  IF mp.panicked THEN mp
  ELSE IF mp.ret < 0 THEN Return(mp, -1)
  ELSE Return(mp, 0)

\* handle_page_fault, lines 501-506: mp is the state after mappages.
hpf_mapped(mp, pa) ==
  IF mp.panicked THEN mp
  ELSE IF mp.ret < 0 THEN Return(kfree(mp, pa), -1)
  ELSE Return(mp, 0)

\* handle_page_fault, lines 494-501: f is the state after the frame was filled.
hpf_map(f, va, pa, env) ==
  IF f.ret < 0 THEN Return(f, -1)
  ELSE hpf_mapped(mappages(f, va, pa,
                           {"U", "R"} \cup (IF InText(f, va) THEN {"X"} ELSE {}),
                           env.map_ok), pa)

\* A faulty variant of hpf_serve: the descriptor is marked RESIDENT although
\* no frame could be had.
hpf_serve_mark(a, va, pi, env) ==
  IF a.ret = 0 THEN Return(hpf_resident(hpf_pi(a, va, pi), va), -1)
  ELSE hpf_map(hpf_fill(a, va, pi, a.ret, env), va, a.ret, env)

\* handle_page_fault, lines 418-506: a is the state after the allocation.
hpf_serve(a, va, pi, env) ==
  IF a.ret = 0 THEN Return(a, -1)
  ELSE hpf_map(hpf_fill(a, va, pi, a.ret, env), va, a.ret, env)

\* handle_page_fault, lines 341-392: g is what get_page_info returned.
hpf_classify(g, va, is_write, env) ==
  LET access_type == IF is_write THEN "write"
                     ELSE IF InText(g.s, va) THEN "exec" ELSE "read"
      cause == hpf_cause(g.s, va, g.idx)
  IN IF cause = "unknown"
     THEN Return(Emit(Emit(g.s, << "PAGEFAULT", va, access_type, cause >>),
                      << "KILL", "invalid-access" >>), -1)
     ELSE hpf_serve(
            hpf_alloc(kalloc(Emit(g.s, << "PAGEFAULT", va, access_type, cause >>)),
                      env),
            va, g.idx, env)

handle_page_fault(s, va0, is_write, env) ==
  hpf_classify(get_page_info_dp(s, PGROUNDDOWN(va0)), PGROUNDDOWN(va0), is_write, env)

\* handle_write_fault, lines 516-529: g is what get_page_info returned.
hwf_at(g, va) ==
  IF g.idx = -1 THEN Return(g.s, -1)
  ELSE IF g.s.pages[g.idx].state # RESIDENT THEN Return(g.s, -1)
  ELSE IF va \notin DOMAIN g.s.pagetable
  THEN Return([g.s EXCEPT !.pages[g.idx].is_dirty = TRUE], -1)
  ELSE Return([g.s EXCEPT !.pages[g.idx].is_dirty = TRUE,
                          !.pagetable[va].perm = @ \cup {"W"}], 0)

handle_write_fault(s, va0) ==
  hwf_at(get_page_info_dp(s, PGROUNDDOWN(va0)), PGROUNDDOWN(va0))

\* ------------------------------------------------------------------ lazy.c

setkilled(s) == [s EXCEPT !.killed = TRUE]

\* create_swap_file: create() fails when ok is FALSE; it returns the inode
\* locked when it succeeds.
create_swap_file_lazy(s, ok) ==
  IF s.swapfile # 0 THEN Return(s, 0)
  ELSE IF ~ok
  THEN Return(Emits(s, << << "begin_op" >>, << "create", FALSE >>, << "end_op" >> >>), -1)
  ELSE Return(Emits([s EXCEPT !.swapfile = 1, !.nlink = 1],
                    << << "begin_op" >>, << "create", TRUE >>, << "ilock", "swap" >>,
                       << "iunlock", "swap" >>, << "end_op" >> >>), 0)

\* lazy_evict_page lines 436-438, lazy_handle_fault lines 124-126: the
\* transfer op of one page to or from slot with the swap inode locked.
LockedIo(s, op, slot, ok) ==
  Emits(s, << << "ilock", "swap" >>, << op, slot, ok >>, << "iunlock", "swap" >> >>)

\* lazy_free, lines 55-78.
lazy_free(s) ==
  LET a == IF s.swapfile # 0
           THEN [Emits(iput(Emit(s, << "begin_op" >>)), << << "end_op" >> >>)
                   EXCEPT !.swapfile = 0]
           ELSE s
      b == [a EXCEPT !.exec_inode = 0]
  IN IF b.num_swapped_pages > 0
     THEN Emit(b, << "SWAPCLEANUP", b.num_swapped_pages >>)
     ELSE b

\* delete_swap_file of lazy.c, lines 355-379: the inode the process holds is
\* valid (ref > 0, type set); its link count is set to 0 before iput.
delete_swap_file_lazy(s) ==
  IF s.swapfile = 0 THEN s
  ELSE [Emits(iput(Emits([s EXCEPT !.nlink = 0],
                         << << "begin_op" >>, << "ilock", "swap" >>,
                            << "iunlock", "swap" >> >>)),
              << << "end_op" >> >>)
          EXCEPT !.swapfile = 0]

delete_swap_file(s) ==
  IF s.build = "dp" THEN delete_swap_file_dp(s) ELSE delete_swap_file_lazy(s)

\* lazy_evict_page, lines 392-401: the first entry with the least seq among
\* the RESIDENT ones, -1 when there is none.
lazy_victim_idx(s) ==
  LET res == {i \in PageIdx : s.pages[i].state = RESIDENT}
      least == {i \in res : \A j \in res : s.pages[i].seq <= s.pages[j].seq}
  IN IF res = {} THEN -1 ELSE MinOf(least)

\* lazy_evict_page, lines 444-446: w is the state after the page was written.
lazy_swap_out_mark(w, victim_idx, slot) ==
  Return([w EXCEPT !.pages[victim_idx].state = SWAPPED,
                   !.pages[victim_idx].swap_slot = slot,
                   !.num_swapped_pages = @ + 1], 0)

\* A faulty variant of lazy_swap_out_write: the victim's PTE is cleared and
\* its frame freed before the page is written to the swap file.
lazy_swap_out_write_late(a, victim_idx, victim_va, env) ==
  IF a.ret < 0
  THEN Return(setkilled(Emit(a, << "KILL", "swap-exhausted" >>)), -1)
  ELSE IF walkaddr(a, victim_va) = 0
  THEN lazy_swap_out_mark(a, victim_idx, a.ret)
  ELSE lazy_swap_out_mark(
         Emit(LockedIo([uvmunmap(a, victim_va, 1) EXCEPT !.swapdata =
                          (a.ret :> (IF env.wr_ok THEN a.physmem[walkaddr(a, victim_va)]
                                     ELSE JunkPage)) @@ @],
                       "writei", a.ret, env.wr_ok),
              << "SWAPOUT", victim_va, a.ret >>),
         victim_idx, a.ret)

\* lazy_evict_page, lines 427-446: a is the state after alloc_swap_slot.  The
\* result of writei is not looked at.
lazy_swap_out_write(a, victim_idx, victim_va, env) ==
  IF a.ret < 0
  THEN Return(setkilled(Emit(a, << "KILL", "swap-exhausted" >>)), -1)
  ELSE IF walkaddr(a, victim_va) = 0
  THEN lazy_swap_out_mark(a, victim_idx, a.ret)
  ELSE lazy_swap_out_mark(
         Emit(LockedIo([a EXCEPT !.swapdata =
                          (a.ret :> (IF env.wr_ok THEN a.physmem[walkaddr(a, victim_va)]
                                     ELSE JunkPage)) @@ @],
                       "writei", a.ret, env.wr_ok),
              << "SWAPOUT", victim_va, a.ret >>),
         victim_idx, a.ret)

\* lazy_evict_page, lines 420-427: c is the state after the swap file was
\* looked for.
lazy_swap_out_slot(c, victim_idx, victim_va, env) ==
  IF c.ret # 0
  THEN Return(setkilled(Emit(c, << "KILL", "swap-exhausted" >>)), -1)
  ELSE lazy_swap_out_write(alloc_swap_slot_lazy(c), victim_idx, victim_va, env)

\* lazy_evict_page, lines 417-446: the swap-out branch.
lazy_swap_out(s, victim_idx, victim_va, env) ==
  lazy_swap_out_slot(IF s.swapfile = 0 THEN create_swap_file_lazy(s, env.create_ok)
                     ELSE Return(s, 0),
                     victim_idx, victim_va, env)

\* lazy_evict_page, lines 454-459: s2 is the state after the branch taken.
\* The third argument of uvmunmap is a number of pages, and PGSIZE is passed.
lazy_evict_unmap(s2, victim_va) ==
  IF s2.ret < 0 THEN Return(s2, -1)
  ELSE Return(Emit(uvmunmap(s2, victim_va, PGSIZE), << "EVICT", victim_va >>), 1)

\* lazy_evict_page, lines 407-452: the victim is entry victim_idx.
lazy_evict_branch(s, victim_idx, victim_va, env) ==
  IF s.pages[victim_idx].is_dirty
     \/ ~(victim_va >= s.text_start /\ victim_va < s.text_end)
  THEN lazy_swap_out(Emit(s, << "VICTIM", victim_va, s.pages[victim_idx].seq >>),
                     victim_idx, victim_va, env)
  ELSE Return([Emit(Emit(s, << "VICTIM", victim_va, s.pages[victim_idx].seq >>),
                    << "DISCARD", victim_va >>)
                 EXCEPT !.pages[victim_idx].state = UNMAPPED,
                        !.pages[victim_idx].swap_slot = -1], 0)

lazy_evict_at(s, victim_idx, env) ==
  IF victim_idx = -1 THEN Return(s, -1)
  ELSE lazy_evict_unmap(
         lazy_evict_branch(s, victim_idx, s.pages[victim_idx].va, env),
         s.pages[victim_idx].va)

lazy_evict_page(s, env) == lazy_evict_at(s, lazy_victim_idx(s), env)

\* lazy_handle_fault, lines 113-120 and 203-210: got is the state after the
\* last kalloc.
lhf_alloc_got(got) ==
  IF got.ret = 0 THEN Return(setkilled(Emit(got, << "MEMFULL" >>)), 0)
  ELSE [got EXCEPT !.physmem[got.ret] = ZeroPage]

\* lazy_handle_fault, lines 108-111 and 197-201: e is the state after
\* lazy_evict_page.
lhf_alloc_retry(e) ==
  lhf_alloc_got(IF e.ret > 0 THEN kalloc(e) ELSE Return(e, 0))

\* lazy_handle_fault, lines 105-120 and 194-210: k is the state after the
\* first kalloc.  A zeroed frame in ret, ret = 0 (with MEMFULL and the process
\* killed) when none could be had.
lhf_alloc(k, env) ==
  IF k.ret # 0 THEN lhf_alloc_got(k)
  ELSE lhf_alloc_retry(lazy_evict_page(k, env))

\* lazy_handle_fault, lines 131-139 and 226-234.
lhf_flags(s, va) ==
  {"U", "R"} \cup (IF InText(s, va) THEN {"X"} ELSE {"W"})

\* lazy_handle_fault, lines 141-161: mp is the state after mappages.
lhf_swapin_mapped(mp, va, pi, mem) ==
  IF mp.panicked THEN mp
  ELSE IF mp.ret # 0 THEN Return(setkilled(kfree(mp, mem)), -1)
  ELSE IF mp.pages[pi].swap_slot >= 0
  THEN Return(Emit([free_swap_slot(mp, mp.pages[pi].swap_slot)
                      EXCEPT !.pages[pi].state = RESIDENT,
                             !.pages[pi].seq = mp.next_fifo_seq,
                             !.next_fifo_seq = @ + 1,
                             !.pages[pi].swap_slot = -1,
                             !.num_swapped_pages = @ - 1],
                   << "RESIDENT", va, mp.next_fifo_seq >>), 0)
  ELSE Return(Emit([mp EXCEPT !.pages[pi].state = RESIDENT,
                              !.pages[pi].seq = mp.next_fifo_seq,
                              !.next_fifo_seq = @ + 1,
                              !.pages[pi].swap_slot = -1],
                   << "RESIDENT", va, mp.next_fifo_seq >>), 0)

\* lazy_handle_fault, lines 131-145: r is the state after the slot was read.
lhf_swapin_map(r, va, pi, mem, env) ==
  lhf_swapin_mapped(mappages(r, va, mem, lhf_flags(r, va), env.map_ok), va, pi, mem)

\* lazy_handle_fault, lines 122-129: a is the state after the allocation.
\* The result of readi is not looked at.
lhf_swapin_read(a, va, pi, env) ==
  IF a.ret = 0 THEN Return(a, -1)
  ELSE IF a.swapfile # 0 /\ a.pages[pi].swap_slot >= 0
  THEN lhf_swapin_map(
         Emit(LockedIo([a EXCEPT !.physmem[a.ret] =
                          IF env.rd_ok /\ a.pages[pi].swap_slot \in DOMAIN a.swapdata
                          THEN a.swapdata[a.pages[pi].swap_slot] ELSE ZeroPage],
                       "readi", a.pages[pi].swap_slot, env.rd_ok),
              << "SWAPIN", va, a.pages[pi].swap_slot >>),
         va, pi, a.ret, env)
  ELSE lhf_swapin_map(a, va, pi, a.ret, env)

\* lazy_handle_fault, lines 102-162: the page's descriptor is SWAPPED.
lhf_swapin(s, va, pi, access_type, env) ==
  lhf_swapin_read(
    lhf_alloc(kalloc(Emit(s, << "PAGEFAULT", va, access_type, "swap" >>)), env),
    va, pi, env)

\* lazy_handle_fault, lines 169-182.  stack_top - (USERSTACK+1)*PGSIZE is an
\* unsigned subtraction: it wraps to a huge address when stack_top is smaller.
lhf_cause(s, va) ==
  LET wraps == s.stack_top < (USERSTACK + 1) * PGSIZE
      stack_bottom == s.stack_top - (USERSTACK + 1) * PGSIZE
  IN IF ~wraps /\ va >= stack_bottom /\ va < s.stack_top THEN "stack"
     ELSE IF va >= s.heap_start /\ (wraps \/ va < stack_bottom) THEN "heap"
     ELSE IF (va >= s.text_start /\ va < s.text_end)
             \/ (va >= s.data_start /\ va < s.data_end) THEN "exec"
     ELSE "invalid"

\* lazy_handle_fault, lines 236-261: mp is the state after mappages.
lhf_mapped(mp, va, pi, mem, cause, write_fault) ==
  IF mp.panicked THEN mp
  ELSE IF mp.ret # 0 THEN Return(setkilled(kfree(mp, mem)), -1)
  ELSE Return(
    Emit([Emit(mp, << (IF cause = "exec" THEN "LOADEXEC" ELSE "ALLOC"), va >>)
            EXCEPT !.pages[pi] = Desc(va, RESIDENT, write_fault, mp.next_fifo_seq, -1),
                   !.next_fifo_seq = @ + 1],
         << "RESIDENT", va, mp.next_fifo_seq >>), 0)

\* lazy_handle_fault, lines 226-240: r is the state after the frame was filled.
lhf_map(r, va, pi, mem, cause, write_fault, env) ==
  lhf_mapped(mappages(r, va, mem, lhf_flags(r, va), env.map_ok),
             va, pi, mem, cause, write_fault)

\* lazy_handle_fault, lines 212-224: a is the state after the allocation.
\* The result of readi is not looked at.
lhf_fill(a, va, pi, cause, write_fault, env) ==
  IF a.ret = 0 THEN Return(a, -1)
  ELSE IF cause = "exec" /\ a.exec_inode # 0
          /\ a.exec_off[pi] > 0 /\ a.exec_len[pi] > 0
  THEN lhf_map(Emit([a EXCEPT !.physmem[a.ret] =
                       IF env.rd_ok
                       THEN ReadExec(a.exec_inode, a.exec_off[pi], a.exec_len[pi])
                       ELSE ZeroPage],
                    << "readi", "exec", env.rd_ok >>),
               va, pi, a.ret, cause, write_fault, env)
  ELSE lhf_map(a, va, pi, a.ret, cause, write_fault, env)

\* lazy_handle_fault, lines 164-210: the page's descriptor is not SWAPPED.
lhf_fresh(s, va, pi, access_type, cause, write_fault, env) ==
  IF cause = "invalid"
  THEN Return(Emit(s, << "PAGEFAULT", va, access_type, cause >>), -1)
  ELSE lhf_fill(
         lhf_alloc(kalloc(Emit(s, << "PAGEFAULT", va, access_type, cause >>)), env),
         va, pi, cause, write_fault, env)

lhf_at(s, va, pi, write_fault, env) ==
  IF ismapped(s, va) THEN Return(s, -1)
  ELSE IF s.pages[pi].state = SWAPPED
  THEN lhf_swapin(s, va, pi, IF write_fault THEN "write" ELSE "read", env)
  ELSE lhf_fresh(s, va, pi, IF write_fault THEN "write" ELSE "read",
                 lhf_cause(s, va), write_fault, env)

lazy_handle_fault(s, va0, write_fault, env) ==
  lhf_at(s, PGROUNDDOWN(va0), get_page_info_lazy(s, PGROUNDDOWN(va0)).idx,
         write_fault, env)

\* ------------------------------------------------------------------ exec.c

\* kexec, lines 111-127: g is what get_page_info returned for the page va of
\* segment ph.
kexec_page_set(g, ph, va) ==
  IF g.idx = -1 THEN g.s
  ELSE [g.s EXCEPT
          !.pages[g.idx].va = va,
          !.pages[g.idx].state = UNMAPPED,
          !.exec_off[g.idx] = IF va - ph.vaddr < ph.filesz
                              THEN ph.off + (va - ph.vaddr) ELSE 0,
          !.exec_len[g.idx] = IF va - ph.vaddr < ph.filesz
                              THEN (IF ph.filesz - (va - ph.vaddr) > PGSIZE THEN PGSIZE
                                    ELSE ph.filesz - (va - ph.vaddr))
                              ELSE 0]

\* kexec, lines 109-128: register the pages of segment ph from va on.
RECURSIVE kexec_pages(_, _, _)
kexec_pages(s, ph, va) ==
  IF va >= ph.vaddr + ph.memsz THEN s
  ELSE kexec_pages(kexec_page_set(get_page_info(s, va), ph, va), ph, va + PGSIZE)

\* kexec, lines 79-133: the program headers from the i-th on; ret = -1 when
\* a header is refused (goto bad).
RECURSIVE kexec_segments(_, _, _)
kexec_segments(s, phs, i) ==
  IF i > Len(phs) THEN Return(s, 0)
  ELSE IF phs[i].memsz < phs[i].filesz \/ phs[i].vaddr % PGSIZE # 0 THEN Return(s, -1)
  ELSE kexec_segments(kexec_pages(s, phs[i], phs[i].vaddr), phs, i + 1)

\* proc_freepagetable(oldpagetable, oldsz): the frames of the pages below
\* oldsz are freed in address order; freewalk panics on a leaf left above.
RECURSIVE uvmfree(_, _, _)
uvmfree(s, oldpt, vas) ==
  IF vas = {} THEN s
  ELSE uvmfree(kfree(s, oldpt[MinOf(vas)].pa), oldpt, vas \ {MinOf(vas)})

freewalk(f, leaves) ==
  IF leaves # {} THEN [f EXCEPT !.panicked = TRUE] ELSE f

proc_freepagetable(s, oldpt, oldsz) ==
  freewalk(uvmfree(s, oldpt, {va \in DOMAIN oldpt : va < PGROUNDUP(oldsz)}),
           {va \in DOMAIN oldpt : va >= PGROUNDUP(oldsz)})

ArgvPage == << 0, 50 >>

\* kexec, lines 49-54.
kexec_clear(s) ==
  [s EXCEPT !.exec_off = [i \in PageIdx |-> 0],
            !.exec_len = [i \in PageIdx |-> 0],
            !.num_pages = 0]

\* kexec, lines 214-245: fr is the state after the old page table was freed.
kexec_commit(fr, img) ==
  IF fr.panicked THEN fr
  ELSE Return(Emit([fr EXCEPT !.exec_inode = img], << "INIT-LAZYMAP" >>), 1)

\* kexec, lines 181-220: tr is the state after the stack page was tracked.
\* On the bad path the new page table's stack page is unmapped and freed.
kexec_argv(tr, stack_mem, stackbase, oldsz, img, fail) ==
  IF fail = "argv" THEN Return(kfree(tr, stack_mem), -1)
  ELSE kexec_commit(
         proc_freepagetable(
           [tr EXCEPT !.physmem[stack_mem] = ArgvPage,
                      !.pagetable =
                        (stackbase :> [pa |-> stack_mem, perm |-> {"W", "R", "U"}])],
           tr.pagetable, oldsz),
         img)

\* kexec, lines 173-179: g is what get_page_info returned for the stack page.
kexec_track(g, stack_mem, stackbase, oldsz, img, fail) ==
  kexec_argv(IF g.idx = -1 THEN g.s
             ELSE [g.s EXCEPT !.pages[g.idx].state = RESIDENT,
                              !.pages[g.idx].seq = g.s.next_fifo_seq,
                              !.next_fifo_seq = @ + 1,
                              !.pages[g.idx].is_dirty = FALSE],
             stack_mem, stackbase, oldsz, img, fail)

\* kexec, lines 160-174: k is the state after kalloc of the stack page.
kexec_stack(k, stackbase, oldsz, img, fail) ==
  IF k.ret = 0 THEN Return(k, -1)
  ELSE IF fail = "map"
  THEN Return(kfree([k EXCEPT !.physmem[k.ret] = ZeroPage], k.ret), -1)
  ELSE kexec_track(get_page_info(k, stackbase), k.ret, stackbase, oldsz, img, fail)

\* kexec, lines 142-162: seg is the state after the program headers were
\* read.  The layout is stored before the stack page is allocated.
kexec_layout(seg, phs, img, fail) ==
  LET X == {i \in 1 .. Len(phs) : phs[i].is_exec}
      D == {i \in 1 .. Len(phs) : ~phs[i].is_exec}
      dend == MaxOf({phs[i].vaddr + phs[i].memsz : i \in D})
      sz0 == PGROUNDUP(MaxOf({phs[i].vaddr + phs[i].memsz : i \in 1 .. Len(phs)}))
  IN IF seg.ret < 0 THEN Return(seg, -1)
     ELSE kexec_stack(
            kalloc([seg EXCEPT
                      !.text_start = MinOf({phs[i].vaddr : i \in X}),
                      !.text_end = MaxOf({phs[i].vaddr + phs[i].memsz : i \in X}),
                      !.data_start = MinOf({phs[i].vaddr : i \in D}),
                      !.data_end = dend,
                      !.heap_start = PGROUNDUP(dend),
                      !.stack_top = sz0 + (USERSTACK + 1) * PGSIZE,
                      !.sz = sz0 + (USERSTACK + 1) * PGSIZE]),
            sz0 + (USERSTACK + 1) * PGSIZE - USERSTACK * PGSIZE,
            seg.sz, img, fail)

\* kexec(path, argv) for the executable img.  fail names the step that
\* fails: "none", "namei" (no such file), "header" (short read, bad magic or
\* no memory for the page table), "map" (mappages of the stack page),
\* "argv" (too many or too long arguments, copyout).
\* ret is argc (here 1) or -1.  Every image has a text and a data segment.
kexec(s, img, fail) ==
  IF fail \in {"namei", "header"} THEN Return(kexec_clear(s), -1)
  ELSE kexec_layout(kexec_segments(kexec_clear(s), Image(img).phs, 1),
                    Image(img).phs, img, fail)

\* --------------------------------------------------------------- sysproc.c

\* sys_sbrk(n, SBRK_LAZY) with n >= 0: ret is the old break.
sys_sbrk(s, n) == [s EXCEPT !.sz = @ + n, !.ret = s.sz]

\* sys_memstat, sysproc.c lines 110-161.  copyout fails when ok is FALSE.  The
\* cast of va to uint changes no address below 2^32.
sys_memstat(s, ok) ==
  LET n == IF s.num_pages < MAX_PAGES_INFO THEN s.num_pages ELSE MAX_PAGES_INFO
  IN IF ~ok THEN Return(s, -1)
     ELSE Return(
       [s EXCEPT !.info =
          [valid |-> TRUE,
           num_pages_total |-> (s.sz \div PGSIZE) + (IF s.sz % PGSIZE # 0 THEN 1 ELSE 0),
           num_resident_pages |->
             Cardinality({i \in 0 .. (n - 1) : s.pages[i].state = RESIDENT}),
           num_swapped_pages |->
             Cardinality({i \in 0 .. (n - 1) : s.pages[i].state = SWAPPED}),
           next_fifo_seq |-> s.next_fifo_seq,
           pages |-> [i \in 1 .. n |-> s.pages[i - 1]]]], 0)

\* ----------------------------------------------------------------- actions

ExecFails == {"none", "namei", "header", "map", "argv"}

\* The pages the user program touches, and the addresses it uses in them.
TouchPages == {0, 1, 4, 5, 8}
\* an even page is touched at its first byte, an odd page at its last byte
TouchAddrs == {pg * PGSIZE + (IF pg % 2 = 0 THEN 0 ELSE PGSIZE - 1) : pg \in TouchPages}
StoreAddrs == {pg * PGSIZE : pg \in TouchPages}
SbrkSizes == {1, PGSIZE}

\* the process runs: it was not killed and has not begun to exit
Alive == ~panicked /\ ~killed /\ nclean = 0
\* user code runs once an image was loaded
User == Alive /\ exec_inode # 0

\* The MMU raises a fault for an access it does not permit: any access to a
\* page that is not mapped, a store to a page mapped without PTE_W.
Faults(a, w) ==
  IF PGROUNDDOWN(a) \in DOMAIN pagetable
  THEN w /\ "W" \notin pagetable[PGROUNDDOWN(a)].perm
  ELSE TRUE

Kexec(img, fail) ==
  /\ Alive
  /\ nexec < MaxExec
  /\ LET r == kexec(ProcState, img, fail)
     IN /\ Commit(r)
        /\ shadow' = IF r.ret >= 0 /\ ~r.panicked
                     THEN (r.stack_top - USERSTACK * PGSIZE) :> ArgvPage
                     ELSE shadow
  /\ lastop' = [op |-> "kexec", va |-> 0, w |-> FALSE, a |-> 0]
  /\ nexec' = nexec + 1
  /\ UNCHANGED << nsbrk, nfail, nclean >>

\* A page fault is handed to handle_page_fault (demand_paging.c).
HandlePageFault(a, w, env) ==
  /\ User /\ build = "dp"
  /\ Faults(a, w)
  /\ next_fifo_seq < MaxSeq
  /\ LET r == handle_page_fault(ProcState, a, w, env)
     IN /\ r.ret >= 0 \/ nfail < MaxFail
        /\ Commit(r)
        /\ nfail' = IF r.ret < 0 THEN nfail + 1 ELSE nfail
  /\ lastop' = [op |-> "fault", va |-> PGROUNDDOWN(a), w |-> w, a |-> a]
  /\ UNCHANGED << shadow, nexec, nsbrk, nclean >>

\* A store to a page without write permission is handed to handle_write_fault.
HandleWriteFault(a) ==
  /\ User /\ build = "dp"
  /\ Faults(a, TRUE)
  /\ LET r == handle_write_fault(ProcState, a)
     IN /\ r.ret >= 0 \/ nfail < MaxFail
        /\ Commit(r)
        /\ nfail' = IF r.ret < 0 THEN nfail + 1 ELSE nfail
  /\ lastop' = [op |-> "wfault", va |-> PGROUNDDOWN(a), w |-> TRUE, a |-> a]
  /\ UNCHANGED << shadow, nexec, nsbrk, nclean >>

\* A page fault is handed to lazy_handle_fault (lazy.c).
LazyHandleFault(a, w, env) ==
  /\ User /\ build = "lazy"
  /\ Faults(a, w)
  /\ next_fifo_seq < MaxSeq
  /\ LET r == lazy_handle_fault(ProcState, a, w, env)
     IN /\ r.ret >= 0 \/ nfail < MaxFail
        /\ Commit(r)
        /\ nfail' = IF r.ret < 0 THEN nfail + 1 ELSE nfail
  /\ lastop' = [op |-> "fault", va |-> PGROUNDDOWN(a), w |-> w, a |-> a]
  /\ UNCHANGED << shadow, nexec, nsbrk, nclean >>

\* A user store of v at address a that the MMU lets through: the page is
\* mapped with user and write permission.
Store(a, v) ==
  LET va == PGROUNDDOWN(a)
      h == ((a % PGSIZE) \div HALF) + 1
  IN /\ User
     /\ va \in DOMAIN pagetable
     /\ {"U", "W"} \subseteq pagetable[va].perm
     /\ LET pa == pagetable[va].pa
            c == [physmem[pa] EXCEPT ![h] = v]
        IN /\ physmem' = [physmem EXCEPT ![pa] = c]
           /\ shadow' = (va :> c) @@ shadow
     /\ lastop' = [op |-> "store", va |-> va, w |-> TRUE, a |-> a]
     /\ log' = << >> /\ ret' = 0 /\ info' = NoInfo
     /\ UNCHANGED << build, text_start, text_end, data_start, data_end,
                     heap_start, stack_top, sz, pages, exec_off, exec_len,
                     num_pages, next_fifo_seq, swapfile, swap_slot_bitmap,
                     num_swapped_pages, exec_inode, pagetable, freelist,
                     swapdata, killed, panicked, nexec, nsbrk, nfail,
                     nlink, nclean >>

Sbrk(n) ==
  /\ User
  /\ nsbrk < MaxSbrk
  /\ Commit(sys_sbrk(ProcState, n))
  /\ lastop' = [op |-> "sbrk", va |-> sz, w |-> FALSE, a |-> sz]
  /\ nsbrk' = nsbrk + 1
  /\ UNCHANGED << shadow, nexec, nfail, nclean >>

\* kexec by a process that runs an image already.
Reexec(img) ==
  /\ User
  /\ nexec < MaxReexec
  /\ LET r == kexec(ProcState, img, "none")
     IN /\ Commit(r)
        /\ shadow' = IF r.ret >= 0 /\ ~r.panicked
                     THEN (r.stack_top - USERSTACK * PGSIZE) :> ArgvPage
                     ELSE shadow
  /\ lastop' = [op |-> "kexec", va |-> 0, w |-> FALSE, a |-> 0]
  /\ nexec' = nexec + 1
  /\ UNCHANGED << nsbrk, nfail, nclean >>

\* memstat(&info) as memtest.c calls it.
Memstat(ok) ==
  /\ User
  /\ Commit(sys_memstat(ProcState, ok))
  /\ lastop' = [op |-> "memstat", va |-> 0, w |-> FALSE, a |-> 0]
  /\ UNCHANGED << shadow, nexec, nsbrk, nfail, nclean >>

\* The exiting process's swap file is deleted.
DeleteSwapFile ==
  /\ ~panicked
  /\ nclean < MaxClean
  /\ Commit(delete_swap_file(ProcState))
  /\ lastop' = [op |-> "delete_swap_file", va |-> 0, w |-> FALSE, a |-> 0]
  /\ nclean' = nclean + 1
  /\ UNCHANGED << shadow, nexec, nsbrk, nfail >>

\* The exiting process's paging state is released (lazy.c).
LazyFree ==
  /\ ~panicked /\ build = "lazy"
  /\ nclean < MaxClean
  /\ Commit(lazy_free(ProcState))
  /\ lastop' = [op |-> "lazy_free", va |-> 0, w |-> FALSE, a |-> 0]
  /\ nclean' = nclean + 1
  /\ UNCHANGED << shadow, nexec, nsbrk, nfail >>

Next ==
  \/ \E img \in Images, fail \in ExecFails : Kexec(img, fail)
  \/ \E a \in TouchAddrs, w \in BOOLEAN, env \in Envs : HandlePageFault(a, w, env)
  \/ \E a \in TouchAddrs : HandleWriteFault(a)
  \/ \E a \in TouchAddrs, w \in BOOLEAN, env \in Envs : LazyHandleFault(a, w, env)
  \/ \E a \in StoreAddrs, v \in 1 .. MaxVal : Store(a, v)
  \/ \E n \in SbrkSizes : Sbrk(n)

Spec == Init /\ [][Next]_vars

\* A process of the lazy.c build that has used up its swap file: no bit of
\* the bitmap is clear.  Slots are lost whenever a SWAPPED descriptor is
\* overwritten (lazy.c 250-256, exec.c 113) and nothing gives them back, so a
\* process that execs and swaps long enough gets here.
InitFull ==
  /\ build = "lazy"
  /\ text_start = 0 /\ text_end = 0 /\ data_start = 0 /\ data_end = 0
  /\ heap_start = 0 /\ stack_top = 0
  /\ next_fifo_seq = 0
  /\ swapfile = 1
  /\ num_swapped_pages = MAX_SWAP_SLOTS
  /\ num_pages = 0
  /\ exec_inode = 0
  /\ swap_slot_bitmap = 0 .. (MAX_SWAP_SLOTS - 1)
  /\ pages = [i \in PageIdx |-> Desc(0, UNMAPPED, FALSE, 0, -1)]
  /\ exec_off = [i \in PageIdx |-> 0]
  /\ exec_len = [i \in PageIdx |-> 0]
  /\ sz = 0
  /\ pagetable = << >>
  /\ freelist = [i \in 1 .. NFRAMES |-> i]
  /\ physmem = [f \in 1 .. NFRAMES |-> JunkPage]
  /\ swapdata = << >>
  /\ killed = FALSE /\ panicked = FALSE
  /\ log = << >> /\ ret = 0
  /\ lastop = [op |-> "init", va |-> 0, w |-> FALSE, a |-> 0]
  /\ shadow = << >>
  /\ nexec = 0 /\ nsbrk = 0 /\ nfail = 0
  /\ nlink = 1 /\ info = NoInfo /\ nclean = 0

\* the operations of the lazy.c build
NextLazy ==
  \/ \E img \in Images, fail \in ExecFails : Kexec(img, fail)
  \/ \E a \in TouchAddrs, w \in BOOLEAN, env \in Envs : LazyHandleFault(a, w, env)
  \/ \E a \in StoreAddrs, v \in 1 .. MaxVal : Store(a, v)
  \/ \E n \in SbrkSizes : Sbrk(n)

SpecFull == InitFull /\ [][NextLazy]_vars

\* nothing fails in the disk or the page-table allocator
EnvOk == Env(TRUE, TRUE, TRUE, TRUE)

\* The life of a process on a machine where no I/O fails: it execs, runs,
\* execs again, asks for its statistics, and exits.
NextLife ==
  \/ \E img \in Images : Kexec(img, "none")
  \/ \E img \in Images : Reexec(img)
  \/ \E a \in TouchAddrs, w \in BOOLEAN : HandlePageFault(a, w, EnvOk)
  \/ \E a \in TouchAddrs : HandleWriteFault(a)
  \/ \E a \in TouchAddrs, w \in BOOLEAN : LazyHandleFault(a, w, EnvOk)
  \/ \E a \in StoreAddrs, v \in 1 .. MaxVal : Store(a, v)
  \/ \E n \in SbrkSizes : Sbrk(n)
  \/ \E ok \in BOOLEAN : Memstat(ok)
  \/ DeleteSwapFile
  \/ LazyFree

SpecLife == Init /\ [][NextLife]_vars

\* -------------------------------------------------------------- properties

\* The entries of p->pages that are in use.
Tracked == IF build = "dp" THEN 0 .. (num_pages - 1) ELSE PageIdx
ResidentIdx == {i \in Tracked : pages[i].state = RESIDENT}
SwappedIdx == {i \in Tracked : pages[i].state = SWAPPED}
\* the RESIDENT entries with the least seq
Oldest == {i \in ResidentIdx : \A j \in ResidentIdx : pages[i].seq <= pages[j].seq}

HasTag(l, t) == \E k \in 1 .. Len(l) : l[k][1] = t
HasEvent(l, t, a, b) ==
  \E k \in 1 .. Len(l) : l[k][1] = t /\ l[k][2] = a /\ l[k][3] = b
\* the handler took the fault for a valid one
Accepted(l) ==
  \E k \in 1 .. Len(l) : l[k][1] = "PAGEFAULT" /\ l[k][4] \notin {"unknown", "invalid"}
\* the disk refused something during the call
IoFailed(l) ==
  \E k \in 1 .. Len(l) : \/ l[k][1] = "SWAPFULL"
                         \/ l[k][1] = "create" /\ ~l[k][2]
                         \/ l[k][1] \in {"writei", "readi"} /\ ~l[k][3]
OutsideText(va) == ~(va >= text_start /\ va < text_end)

\* C1: when a valid fault finds the free list empty and some descriptor is
\* RESIDENT, the handler names as victim the RESIDENT descriptor with the
\* smallest seq, whatever its va (page 0 included).
C1_FifoVictim ==
  [][(lastop'.op = "fault" /\ lastop'.va \notin DOMAIN pagetable
        /\ freelist = << >> /\ ResidentIdx # {} /\ Accepted(log'))
       => \E i \in Oldest : HasEvent(log', "VICTIM", pages[i].va, pages[i].seq)]_vars

\* C2: a page outside the text range that is mapped holds what the program
\* last wrote to it (kexec's argument strings included), whatever evictions
\* and faults lie in between.
C2_RoundTrip ==
  \A va \in DOMAIN shadow :
    (va \in DOMAIN pagetable /\ OutsideText(va))
      => physmem[pagetable[va].pa] = shadow[va]

\* C3: a victim that is dirty or outside the text range is swapped out (no
\* DISCARD; SWAPPED with an allocated slot when the fault succeeds); a victim
\* that is clean and inside the text range is discarded without swap I/O.
C3_EvictBranch ==
  [][lastop'.op = "fault" =>
       \A i \in ResidentIdx :
         HasEvent(log', "VICTIM", pages[i].va, pages[i].seq) =>
           IF pages[i].is_dirty \/ OutsideText(pages[i].va)
           THEN /\ ~HasTag(log', "DISCARD")
                /\ ret' = 0 =>
                     \/ /\ pages'[i].state = SWAPPED
                        /\ pages'[i].swap_slot \in swap_slot_bitmap'
                     \/ pages'[i].seq # pages[i].seq
           ELSE /\ HasTag(log', "DISCARD")
                /\ ~HasTag(log', "writei")
                /\ ~HasTag(log', "SWAPOUT")]_vars

\* C4: when a dirty victim is evicted in a process without a swap file and
\* the disk refuses nothing, the swap file is created and the victim becomes
\* SWAPPED.
C4_LazySwapFile ==
  [][(lastop'.op = "fault" /\ swapfile = 0 /\ ~IoFailed(log')) =>
       \A i \in ResidentIdx :
         (pages[i].is_dirty /\ HasEvent(log', "VICTIM", pages[i].va, pages[i].seq))
           => /\ swapfile' # 0
              /\ HasTag(log', "create")
              /\ pages'[i].state = SWAPPED \/ pages'[i].seq # pages[i].seq]_vars

\* C5: in every state the bitmap has as many bits set as there are SWAPPED
\* descriptors; a SWAPPED descriptor's slot is in [0, MAX_SWAP_SLOTS), its
\* bit is set, its va is not mapped, and no two SWAPPED descriptors hold the
\* same slot.
C5_SwapAccounting ==
  /\ Cardinality(swap_slot_bitmap) = Cardinality(SwappedIdx)
  /\ \A i \in SwappedIdx :
       /\ pages[i].swap_slot >= 0 /\ pages[i].swap_slot < MAX_SWAP_SLOTS
       /\ pages[i].swap_slot \in swap_slot_bitmap
       /\ pages[i].va \notin DOMAIN pagetable
       /\ \A j \in SwappedIdx : i # j => pages[i].swap_slot # pages[j].swap_slot

\* The seq values of the RESIDENT descriptors are pairwise distinct and
\* below the counter.
SeqInv ==
  \A i \in ResidentIdx :
    /\ pages[i].seq < next_fifo_seq
    /\ \A j \in ResidentIdx : i # j => pages[i].seq # pages[j].seq

\* The counter does not decrease, and a descriptor that enters RESIDENT (or
\* is given a new seq) gets a seq above that of every other RESIDENT one.
SeqStep ==
  /\ next_fifo_seq' >= next_fifo_seq
  /\ \A i \in ResidentIdx' :
       (i \notin ResidentIdx \/ pages'[i].seq # pages[i].seq)
         => \A j \in ResidentIdx' \ {i} : pages'[i].seq > pages'[j].seq

\* C6: in every state the RESIDENT descriptors have pairwise distinct seq
\* values below next_fifo_seq; no step decreases next_fifo_seq, and a page
\* that becomes RESIDENT gets a seq greater than that of every page RESIDENT
\* at that moment.
C6_SeqOrder == [](SeqInv) /\ [][SeqStep]_vars

\* A reachable case of C6: the stack page, RESIDENT since kexec with seq 0,
\* was evicted and is RESIDENT again beside another page.
C6_Witness ==
  /\ lastop.op = "fault" /\ ret = 0 /\ stack_top > 0
  /\ lastop.va = stack_top - PGSIZE
  /\ \E k \in 1 .. MaxSeq : HasEvent(log, "RESIDENT", lastop.va, k)
  /\ Cardinality(ResidentIdx) >= 2

\* Every RESIDENT descriptor's va is mapped with user access.
ResidentMapped ==
  \A i \in ResidentIdx :
    /\ pages[i].va \in DOMAIN pagetable
    /\ "U" \in pagetable[pages[i].va].perm

\* C7: a call of a fault handler that starts with every RESIDENT descriptor
\* mapped for the user ends so, also when it fails part-way.
C7_ResidentMapped ==
  [][(ResidentMapped /\ lastop'.op \in {"fault", "wfault"}) => ResidentMapped']_vars

\* C8: no frame is mapped at two virtual pages (a virtual page has one
\* page-table entry, hence one frame).
C8_NoDoubleMap ==
  \A v1 \in DOMAIN pagetable : \A v2 \in DOMAIN pagetable :
    v1 # v2 => pagetable[v1].pa # pagetable[v2].pa

\* A reachable case of C8: a fault was delivered for a page that is mapped
\* (a store to a page mapped read-only), beside another mapped page.
C8_Witness ==
  /\ lastop.op = "fault" /\ lastop.w
  /\ lastop.va \in DOMAIN pagetable
  /\ ~HasTag(log, "map")
  /\ Cardinality(DOMAIN pagetable) >= 2

\* The pages of the process image: the segments' pages and the stack page.
ImagePages ==
  {va \in {pg * PGSIZE : pg \in 0 .. (2 * MAX_PROC_PAGES)} :
     \/ va >= text_start /\ va < data_end
     \/ va = stack_top - PGSIZE}

\* C9: get_page_info gives two distinct pages of the image two distinct
\* descriptors (or none, at capacity), and a mapped page's descriptor
\* carries that page's va.
C9_OwnDescriptor ==
  exec_inode # 0 =>
    /\ \A v1 \in ImagePages : \A v2 \in ImagePages \ {v1} :
         \/ get_page_info(get_page_info(ProcState, v1).s, v2).idx = -1
         \/ get_page_info(get_page_info(ProcState, v1).s, v2).idx
              # get_page_info(ProcState, v1).idx
    /\ \A v \in DOMAIN pagetable :
         \/ get_page_info(ProcState, v).idx = -1
         \/ get_page_info(ProcState, v).s.pages[get_page_info(ProcState, v).idx].va = v

\* C10: the first fault on a page of the part of [heap_start, sz) that
\* sbrk added is accepted with cause heap, and when it succeeds the page is
\* mapped to a zero-filled frame and its descriptor is RESIDENT.
C10_HeapGrowth ==
  [][(/\ lastop'.op = "fault"
      /\ lastop'.va >= stack_top /\ lastop'.va >= heap_start /\ lastop'.va < sz
      /\ lastop'.va \notin DOMAIN pagetable
      /\ \A i \in Tracked : pages[i].va = lastop'.va => pages[i].state = UNMAPPED)
       => /\ \E k \in 1 .. Len(log') :
               /\ log'[k][1] = "PAGEFAULT" /\ log'[k][2] = lastop'.va
               /\ log'[k][4] = "heap"
          /\ ret' = 0 =>
               /\ lastop'.va \in DOMAIN pagetable'
               /\ physmem'[pagetable'[lastop'.va].pa] = ZeroPage
               /\ \E i \in ResidentIdx' : pages'[i].va = lastop'.va]_vars

\* The descriptor a handler consults for page va is SWAPPED.
PageSwapped(va) ==
  \/ \E i \in Tracked : pages[i].va = va /\ pages[i].state = SWAPPED
  \/ /\ get_page_info(ProcState, va).idx # -1
     /\ get_page_info(ProcState, va).s.pages[get_page_info(ProcState, va).idx].state
          = SWAPPED

\* The address a lies in the text, data, heap or stack region of the process.
InLegalRegion(a) ==
  \/ a >= text_start /\ a < text_end
  \/ a >= data_start /\ a < data_end
  \/ a >= heap_start /\ a < sz
  \/ a + (USERSTACK + 1) * PGSIZE >= stack_top /\ a < stack_top

\* C11: a fault at an address in no legal region whose page is neither
\* SWAPPED nor mapped is rejected: the handler fails without accepting the
\* fault, the page table and the free list are as before, no descriptor
\* becomes RESIDENT and next_fifo_seq is unchanged.
C11_InvalidAccess ==
  [][(/\ lastop'.op = "fault"
      /\ lastop'.va \notin DOMAIN pagetable
      /\ ~PageSwapped(lastop'.va)
      /\ ~InLegalRegion(lastop'.a))
       => /\ ret' < 0
          /\ ~Accepted(log')
          /\ pagetable' = pagetable
          /\ freelist' = freelist
          /\ \A i \in PageIdx : pages'[i].state = RESIDENT => pages[i].state = RESIDENT
          /\ next_fifo_seq' = next_fifo_seq]_vars

\* C12: after every step no page of the text range is mapped with PTE_W, and
\* a store fault on a mapped text page fails and leaves the is_dirty of the
\* page's descriptor as it was.
C12_TextNotWritable ==
  [][/\ \A va \in DOMAIN pagetable' :
          (va >= text_start' /\ va < text_end') => "W" \notin pagetable'[va].perm
     /\ (/\ lastop'.op \in {"fault", "wfault"} /\ lastop'.w
         /\ lastop'.va \in DOMAIN pagetable
         /\ lastop'.va >= text_start /\ lastop'.va < text_end)
          => /\ ret' < 0
             /\ \A i \in Tracked :
                  pages[i].va = lastop'.va => pages'[i].is_dirty = pages[i].is_dirty]_vars

\* C13: when a fault with cause swap succeeds, the page's descriptor is
\* RESIDENT with is_dirty false and swap_slot -1, the slot it held is clear
\* in the bitmap, and its seq is the value next_fifo_seq had, the counter
\* having moved on.
C13_SwapInClean ==
  [][(/\ lastop'.op = "fault" /\ ret' = 0
      /\ \E k \in 1 .. Len(log') :
           /\ log'[k][1] = "PAGEFAULT" /\ log'[k][2] = lastop'.va
           /\ log'[k][4] = "swap")
       => LET i == get_page_info(ProcState, lastop'.va).idx
          IN /\ i # -1
             /\ pages'[i].state = RESIDENT
             /\ ~pages'[i].is_dirty
             /\ pages'[i].swap_slot = -1
             /\ pages[i].swap_slot \notin swap_slot_bitmap'
             /\ pages'[i].seq >= next_fifo_seq
             /\ pages'[i].seq < next_fifo_seq']_vars

\* C14: when a fault on an unmapped page is served from the executable and
\* no I/O fails, the frame mapped holds the exec_len bytes at file offset
\* exec_off recorded for the page, and zeros after them.
C14_ExecFill ==
  [][(/\ lastop'.op = "fault" /\ ret' = 0
      /\ lastop'.va \notin DOMAIN pagetable
      /\ HasTag(log', "LOADEXEC") /\ ~IoFailed(log')
      /\ get_page_info(ProcState, lastop'.va).idx # -1)
       => /\ lastop'.va \in DOMAIN pagetable'
          /\ physmem'[pagetable'[lastop'.va].pa]
               = ReadExec(exec_inode,
                          exec_off[get_page_info(ProcState, lastop'.va).idx],
                          exec_len[get_page_info(ProcState, lastop'.va).idx])]_vars

\* the position of an event with tag t and first argument x in the log l
At(l, k, t, x) == l[k][1] = t /\ l[k][2] = x

\* C15: during a fault that evicts a mapped victim, every write to the swap
\* file is logged before the victim's PTE is cleared, and the victim's PTE is
\* cleared and its frame freed before any mapping is installed.
C15_EvictOrder ==
  [][lastop'.op = "fault" =>
       \A k \in 1 .. Len(log') :
         (log'[k][1] = "VICTIM" /\ log'[k][2] \in DOMAIN pagetable) =>
           /\ \A w, u \in 1 .. Len(log') :
                (log'[w][1] = "writei" /\ At(log', u, "unmap", log'[k][2])) => w < u
           /\ \A m \in 1 .. Len(log') :
                log'[m][1] = "map" =>
                  /\ \E u \in 1 .. (m - 1) : At(log', u, "unmap", log'[k][2])
                  /\ \E f \in 1 .. (m - 1) :
                       At(log', f, "kfree", pagetable[log'[k][2]].pa)]_vars

\* a fault that wrote its victim to the swap file, unmapped it and mapped the
\* page asked for
C15_Witness ==
  /\ lastop.op = "fault" /\ ret = 0
  /\ HasTag(log, "VICTIM")
  /\ \E w, u, m \in 1 .. Len(log) :
       /\ w < u /\ u < m
       /\ log[w][1] = "writei" /\ log[w][3]
       /\ log[u][1] = "unmap" /\ log[m][1] = "map"

\* C16: when the victim of a fault is dirty, the swap file exists and no swap
\* slot is free, the fault logs SWAPFULL and then KILL swap-exhausted and
\* fails, the victim stays RESIDENT and mapped, and the bitmap is unchanged.
C16_SwapFull ==
  [][\A k \in 1 .. Len(log'), i \in Tracked :
       (/\ lastop'.op = "fault"
        /\ swapfile # 0
        /\ swap_slot_bitmap = 0 .. (MAX_SWAP_SLOTS - 1)
        /\ log'[k][1] = "VICTIM"
        /\ pages[i].va = log'[k][2] /\ pages[i].seq = log'[k][3]
        /\ pages[i].state = RESIDENT /\ pages[i].is_dirty)
         => /\ \E a, b \in 1 .. Len(log') :
                 /\ a < b /\ log'[a][1] = "SWAPFULL"
                 /\ log'[b][1] = "KILL" /\ log'[b][2] = "swap-exhausted"
            /\ ret' < 0
            /\ pages'[i].state = RESIDENT
            /\ (pages[i].va \in DOMAIN pagetable => pages[i].va \in DOMAIN pagetable')
            /\ swap_slot_bitmap' = swap_slot_bitmap]_vars

\* the fault was served from the swap file: every readi of it is a swap read
SwapFault(l) == \E k \in 1 .. Len(l) : l[k][1] = "PAGEFAULT" /\ l[k][4] = "swap"

\* C17: when a write to the swap file, or a read from it, transfers less than
\* a page during a fault, the fault fails and the slot involved is still
\* allocated afterwards.
C17_ShortSwapIo ==
  [][\A k \in 1 .. Len(log') :
       (/\ lastop'.op = "fault"
        /\ \/ log'[k][1] = "writei"
           \/ log'[k][1] = "readi" /\ SwapFault(log')
        /\ ~log'[k][3])
         => /\ ret' < 0
            /\ log'[k][2] \in swap_slot_bitmap']_vars

\* C18: in demand_paging.c, when the table holds MAX_PROC_PAGES descriptors
\* and none of them is for the faulting page, the fault fails and the page is
\* not mapped.
C18_TableFull ==
  [][(/\ lastop'.op = "fault" /\ build = "dp"
      /\ num_pages = MAX_PROC_PAGES
      /\ \A i \in Tracked : pages[i].va # lastop'.va)
       => /\ ret' < 0
          /\ lastop'.va \notin DOMAIN pagetable']_vars

Before(l, k, t) == Cardinality({j \in 1 .. (k - 1) : l[j][1] = t})

\* C20: during a fault, every write to the swap file and every read from it
\* happens inside begin_op/end_op with the swap inode locked, and when the
\* handler returns every begin_op has its end_op and every ilock its iunlock.
C20_SwapIoBracket ==
  [][lastop'.op = "fault" =>
       /\ \A k \in 1 .. Len(log') :
            (\/ log'[k][1] = "writei"
             \/ log'[k][1] = "readi" /\ SwapFault(log'))
              => /\ Before(log', k, "begin_op") = Before(log', k, "end_op") + 1
                 /\ Before(log', k, "ilock") = Before(log', k, "iunlock") + 1
       /\ Before(log', Len(log') + 1, "begin_op") = Before(log', Len(log') + 1, "end_op")
       /\ Before(log', Len(log') + 1, "ilock") = Before(log', Len(log') + 1, "iunlock")]_vars

\* the swap state of the process that cleanup is about
SwapState == << swapfile, nlink, swap_slot_bitmap, num_swapped_pages, swapdata, pages >>

\* C21: delete_swap_file and lazy_free leave the swap state of a process
\* that never opened a swap file as it is and log no SWAPCLEANUP; a second
\* call of either, right after a first one, changes nothing and logs no
\* SWAPCLEANUP either.
C21_CleanupIdempotent ==
  [][/\ (/\ lastop'.op \in {"delete_swap_file", "lazy_free"}
         /\ swapfile = 0 /\ nlink = 0 /\ nclean = 0)
          => SwapState' = SwapState /\ ~HasTag(log', "SWAPCLEANUP")
     /\ (/\ lastop'.op \in {"delete_swap_file", "lazy_free"}
         /\ lastop.op = lastop'.op)
          => /\ SwapState' = SwapState /\ exec_inode' = exec_inode
             /\ ~HasTag(log', "SWAPCLEANUP")]_vars

\* C22: when a cleanup function is called on a process with an open swap
\* file, afterwards the file has no link left, the process holds no handle
\* on it, and no bit of the bitmap is set.
C22_SwapDestroyed ==
  [][(/\ lastop'.op \in {"delete_swap_file", "lazy_free"}
      /\ swapfile # 0)
       => /\ swapfile' = 0
          /\ nlink' = 0
          /\ swap_slot_bitmap' = {}]_vars

\* C23: in the log of a fault, every EVICT of a page comes after a SWAPOUT or
\* a DISCARD of that page, which comes after the VICTIM event for it.
C23_EvictEvents ==
  [][lastop'.op = "fault" =>
       \A e \in 1 .. Len(log') :
         log'[e][1] = "EVICT" =>
           \E v, m \in 1 .. (e - 1) :
             /\ v < m
             /\ At(log', v, "VICTIM", log'[e][2])
             /\ log'[m][1] \in {"SWAPOUT", "DISCARD"} /\ log'[m][2] = log'[e][2]]_vars

\* the state that paging works on
PagingState ==
  << text_start, text_end, data_start, data_end, heap_start, stack_top, sz,
     pages, exec_off, exec_len, num_pages, next_fifo_seq, swapfile,
     swap_slot_bitmap, num_swapped_pages, exec_inode, pagetable, freelist,
     physmem, swapdata, nlink >>

\* C24: a memstat call that succeeds reports the number of RESIDENT and of
\* SWAPPED descriptors of the process, sz in pages rounded up, and one record
\* per descriptor equal to it (up to MAX_PAGES_INFO); it changes no paging
\* state.
C24_Memstat ==
  [][(lastop'.op = "memstat" /\ ret' = 0)
       => /\ info'.valid
          /\ info'.num_resident_pages = Cardinality(ResidentIdx)
          /\ info'.num_swapped_pages = Cardinality(SwappedIdx)
          /\ info'.num_pages_total = PGROUNDUP(sz) \div PGSIZE
          /\ info'.next_fifo_seq = next_fifo_seq
          /\ \A i \in Tracked :
               i < MAX_PAGES_INFO =>
                 /\ (i + 1) \in DOMAIN info'.pages
                 /\ info'.pages[i + 1] = pages[i]
          /\ PagingState' = PagingState]_vars

\* C25: after a kexec that succeeds on a process that runs an image already,
\* as many bits are set in the bitmap as there are SWAPPED descriptors, no
\* descriptor is SWAPPED, and the only descriptor that may be RESIDENT is the
\* one of the new stack page.
C25_ExecResets ==
  [][(lastop'.op = "kexec" /\ ret' >= 0 /\ exec_inode # 0)
       => /\ Cardinality(swap_slot_bitmap') = Cardinality(SwappedIdx')
          /\ SwappedIdx' = {}
          /\ Cardinality(ResidentIdx') <= 1]_vars

\* the descriptors in use for page va
DescOf(va) == {i \in Tracked : pages[i].va = va}

\* C26: handle_write_fault on a page with a RESIDENT descriptor and a valid
\* mapping returns 0, sets is_dirty in that descriptor and adds PTE_W to the
\* mapping, and changes no other descriptor field, no other descriptor and
\* not next_fifo_seq; on any other page it fails and changes no descriptor,
\* no mapping and not the number of descriptors.
C26_WriteFault ==
  [][lastop'.op = "wfault" =>
       IF /\ DescOf(lastop'.va) # {}
          /\ pages[MinOf(DescOf(lastop'.va))].state = RESIDENT
          /\ lastop'.va \in DOMAIN pagetable
       THEN /\ ret' = 0
            /\ pages' = [pages EXCEPT ![MinOf(DescOf(lastop'.va))].is_dirty = TRUE]
            /\ pagetable' = [pagetable EXCEPT ![lastop'.va].perm = @ \cup {"W"}]
            /\ next_fifo_seq' = next_fifo_seq /\ num_pages' = num_pages
       ELSE /\ ret' < 0
            /\ pages' = pages /\ num_pages' = num_pages
            /\ pagetable' = pagetable
            /\ next_fifo_seq' = next_fifo_seq]_vars

\* the last call served a store fault on a page outside the text, in the
\* demand_paging.c build
StoreFaultServed ==
  /\ build = "dp" /\ lastop.op = "fault" /\ lastop.w /\ ret = 0
  /\ OutsideText(lastop.va)

\* C27: in the demand_paging.c build, when a store to an unmapped page
\* outside the text faults and is served with a frame at hand, the page is
\* then mapped without PTE_W and its descriptor is RESIDENT and clean, so the
\* store traps once more; the write fault that follows returns 0 and leaves
\* the page writable and its descriptor dirty, so the store goes through.
C27_TwoTraps ==
  [][/\ (/\ StoreFaultServed' /\ lastop'.va \notin DOMAIN pagetable
         /\ freelist # << >>)
          => /\ lastop'.va \in DOMAIN pagetable'
             /\ "W" \notin pagetable'[lastop'.va].perm
             /\ \E i \in {j \in Tracked' : pages'[j].va = lastop'.va} :
                  pages'[i].state = RESIDENT /\ ~pages'[i].is_dirty
     /\ (/\ StoreFaultServed /\ lastop'.op = "wfault" /\ lastop'.a = lastop.a)
          => /\ ret' = 0
             /\ {"U", "W"} \subseteq pagetable'[lastop'.va].perm
             /\ \E i \in {j \in Tracked' : pages'[j].va = lastop'.va} :
                  pages'[i].state = RESIDENT /\ pages'[i].is_dirty]_vars

\* C28: in the demand_paging.c build, a RESIDENT descriptor whose page is
\* mapped with PTE_W has is_dirty set.
C28_WritableIsDirty ==
  build = "dp" =>
    \A i \in Tracked :
      (/\ pages[i].state = RESIDENT
       /\ pages[i].va \in DOMAIN pagetable
       /\ "W" \in pagetable[pages[i].va].perm)
        => pages[i].is_dirty

\* C29: a kexec that returns -1 leaves the layout ranges, sz, stack_top, the
\* descriptors and their number, exec_off and exec_len, next_fifo_seq and the
\* page table as they were.
C29_FailedExec ==
  [][(lastop'.op = "kexec" /\ ret' < 0)
       => /\ << text_start', text_end', data_start', data_end', heap_start' >>
               = << text_start, text_end, data_start, data_end, heap_start >>
          /\ sz' = sz /\ stack_top' = stack_top
          /\ pages' = pages /\ num_pages' = num_pages
          /\ exec_off' = exec_off /\ exec_len' = exec_len
          /\ next_fifo_seq' = next_fifo_seq
          /\ pagetable' = pagetable]_vars

\* how often frame f is on the free list, and the pages mapped to it
FreeCount(f) == Cardinality({k \in 1 .. Len(freelist) : freelist[k] = f})
MappedTo(f) == {va \in DOMAIN pagetable : pagetable[va].pa = f}

\* C30: as long as the kernel has not panicked, every frame is either on the
\* free list exactly once or mapped by exactly one page-table entry, and never
\* both.
C30_FramesAccounted ==
  ~panicked =>
    \A f \in 1 .. NFRAMES : FreeCount(f) + Cardinality(MappedTo(f)) = 1

\* a fault that obtained a frame without evicting, failed afterwards and gave
\* the frame back, in a kernel that is still running with pages mapped
C30_Witness ==
  /\ ~panicked
  /\ lastop.op = "fault" /\ ret < 0
  /\ HasTag(log, "kfree") /\ ~HasTag(log, "unmap")
  /\ lastop.va \notin DOMAIN pagetable
  /\ DOMAIN pagetable # {}

====
